---- MODULE Spec2Model ----
(***************************************************************************)
(* Model of the unbounded MPSC channel of src/channel/src/lib.rs:          *)
(* Shared { inner: Mutex<Inner>, condvar }, Sender (Clone, Drop, send) and *)
(* Receiver (recv, try_recv, private buffer).                              *)
(*                                                                         *)
(* Every Sender handle is a process with its own program counter; the      *)
(* Receiver is one more process.  lock() is the guard of the step that     *)
(* takes the mutex (a thread blocked in lock() is a thread whose step is   *)
(* not yet enabled); what runs under the mutex are steps of their own, so  *)
(* holding the mutex and waiting on the condition variable are separate,   *)
(* observable states.                                                      *)
(*                                                                         *)
(* The other crates of the repository are independent of the channel and   *)
(* of each other; each has its own variables and its own specification,    *)
(* under which the variables of the rest keep their initial values:        *)
(* SpinLock of src/memory_order/src/lib.rs (SpinSpec), RefCell of          *)
(* src/smartptrs/src/refcell.rs (CellSpec), my_flatten of                  *)
(* src/iterator/src/lib.rs (FlatSpec), split of src/lifetime/src/lib.rs    *)
(* (SplitSpec).                                                            *)
(***************************************************************************)
EXTENDS Integers, Sequences, FiniteSets, TLC

\* ---------------------------------------------------------------- bounds
MaxHandles == 2        \* Sender handles ever created (the original included)
MaxSends   == 3        \* send calls made over all handles
NThreads   == 2        \* threads that share one SpinLock
MaxRounds  == 2        \* lock / update / unlock rounds of each such thread
MaxGuards  == 3        \* places that can hold a Ref or RefMut of one RefCell
MaxWrites  == 2        \* writes made through RefMuts
MaxOuter   == 3        \* inner sequences in the input of my_flatten
MaxInner   == 3        \* items of each inner sequence
MaxStrLen  == 3        \* chars of the string given to split
MaxPieces  == 4        \* calls of next on one Split

Handles == 1..MaxHandles

\* ------------------------------------------------------- owners of the mutex
Free == 0              \* nobody holds Shared::inner
Rx   == -1             \* the Receiver holds it; a Sender handle h holds it as h

VARIABLES
    queue,             \* Inner::queue
    senders,           \* Inner::senders
    disconnected,      \* Inner::disconnected
    lock,              \* owner of the Mutex around Inner
    buffer,            \* Receiver::buffer
    spc,               \* per Sender handle: where its current call stands
    sval,              \* per Sender handle: the argument t of its send call
    sres,              \* per Sender handle: what its last send returned
    nsent,             \* per Sender handle: number of send calls made
    rpc,               \* where the Receiver's current call stands
    rres,              \* what the Receiver's last call returned
    received,          \* history: values returned in Ok by recv / try_recv
    sentOk,            \* history: values whose send returned Ok(())
    discAt,            \* history: Len(received) when disconnected was set, or -1
    notified,          \* history: whether the last send that returned Ok called notify_one
    dropAt,            \* history: Len(sentOk) when the Receiver was dropped, or -1
    locked,            \* SpinLock::locked
    data,              \* SpinLock::data (a counter)
    tpc,               \* per thread: where it stands in lock / update / unlock
    tmp,               \* per thread: the value of data it read under its guard
    rounds,            \* per thread: rounds completed
    state,             \* RefCell::state
    value,             \* RefCell::value (a counter)
    guards,            \* per place: the live guard it holds, "Ref", "RefMut" or "none"
    bres,              \* the last RefCell / guard operation and its outcome
    bseq,              \* flips at every RefCell / guard operation
    outer_iter,        \* FlattenCompat::outer_iter: the inner sequences not yet taken
    front_iter,        \* FlattenCompat::front_iter
    back_iter,         \* FlattenCompat::back_iter
    std_rest,          \* the standard flatten on the same input: the items left
    fres,              \* the last call on my_flatten and what it returned
    fexp,              \* what the same call returned on the standard flatten
    input,             \* the str given to split, as its UTF-8 bytes
    delimiter,         \* Split::delimiter
    remainder,         \* Split::remainder
    pieces,            \* history: the pieces next has yielded
    status             \* of the Split: "running", "ended" (next returned None), "panicked"

vars == <<queue, senders, disconnected, lock, buffer, spc, sval, sres, nsent,
          rpc, rres, received, sentOk, discAt, notified, dropAt,
          locked, data, tpc, tmp, rounds,
          state, value, guards, bres, bseq,
          outer_iter, front_iter, back_iter, std_rest, fres, fexp,
          input, delimiter, remainder, pieces, status>>

inner  == <<queue, senders, disconnected>>
hist   == <<sentOk, discAt, notified, dropAt>>
sender == <<spc, sval, sres, nsent>>
recver == <<buffer, rpc, rres, received>>
chanVars == <<inner, lock, sender, recver, hist>>
spinVars == <<locked, data, tpc, tmp, rounds>>
cellVars == <<state, value, guards, bres, bseq>>
flatVars == <<outer_iter, front_iter, back_iter, std_rest, fres, fexp>>

splitVars == <<input, delimiter, remainder, pieces, status>>

\* what the steps of the channel, of SpinLock, of RefCell, of my_flatten and
\* of split leave alone
others   == <<spinVars, cellVars, flatVars, splitVars>>
notSpin  == <<chanVars, cellVars, flatVars, splitVars>>
notCell  == <<chanVars, spinVars, flatVars, splitVars>>
notFlat  == <<chanVars, spinVars, cellVars, splitVars>>
notSplit == <<chanVars, spinVars, cellVars, flatVars>>

\* ------------------------------------------------------------- helpers
NoVal == <<0, 0>>

RECURSIVE SumUpTo(_, _)
SumUpTo(f, n) == IF n = 0 THEN 0 ELSE f[n] + SumUpTo(f, n - 1)

TotalSends == SumUpTo(nsent, MaxHandles)

Range(s) == {s[i] : i \in DOMAIN s}

\* VecDeque::pop_front on a non-empty deque: the element and what is left
PopFrontElem(q) == Head(q)
PopFrontRest(q) == Tail(q)

\* (variant: a pop that finds nothing leaves a default value behind)
PopFrontNone_Grows(q) == <<<<0, 0>>>>

\* VecDeque::pop_front on an empty deque returns None: what is left
PopFrontNone(q) == q

\* VecDeque::push_back
PushBack(q, t) == Append(q, t)

\* std::mem::swap(a, b): the pair (new a, new b)
Swap(a, b) == <<b, a>>

\* Condvar::notify_one / notify_all: the only thread that ever waits on the
\* condition variable is the Receiver inside recv
NotifyOne(pc) == IF pc = "recv_wait" THEN "recv_woken" ELSE pc
NotifyAll(pc) == IF pc = "recv_wait" THEN "recv_woken" ELSE pc

\* ---------------------------------------------------------------- Init
Threads == 1..NThreads

\* SpinLock::new(0), shared by threads that have not started
SpinLockNewLocked == FALSE

SpinVarsInit ==
    /\ locked = SpinLockNewLocked
    /\ data = 0
    /\ tpc = [t \in Threads |-> "idle"]
    /\ tmp = [t \in Threads |-> 0]
    /\ rounds = [t \in Threads |-> 0]

\* enum BorrowState
UnBorrow == <<"UnBorrow">>
SharedBorrow(n) == <<"SharedBorrow", n>>
ExclusiveBorrow == <<"ExclusiveBorrow">>

Places == 1..MaxGuards

\* RefCell::new(0), no guard taken yet
CellVarsInit ==
    /\ state = UnBorrow
    /\ value = 0
    /\ guards = [i \in Places |-> "none"]
    /\ bres = <<"new", "ok">>
    /\ bseq = 0

\* Option<U>
None == <<"None">>
Some(x) == <<"Some", x>>

\* the input of my_flatten: inner sequence i has lens[i] items, item j of it
\* is <<i, j>>
FlatInput(lens) == [i \in DOMAIN lens |-> [j \in 1..lens[i] |-> <<i, j>>]]

RECURSIVE Concat(_)
Concat(ss) == IF ss = <<>> THEN <<>> ELSE Head(ss) \o Concat(Tail(ss))

\* input.into_iter().my_flatten(): FlattenCompat::new; and the same input
\* flattened by the standard library
FlatVarsStart(lens) ==
    /\ outer_iter = FlatInput(lens)
    /\ front_iter = None
    /\ back_iter = None
    /\ std_rest = Concat(FlatInput(lens))
    /\ fres = <<"new", None>>
    /\ fexp = None

FlatVarsInit == FlatVarsStart(<<>>)

\* split(s, delimiter): the Split it returns
SplitVarsStart(s, d) ==
    /\ input = s
    /\ delimiter = d
    /\ remainder = Some(s)
    /\ pieces = <<>>
    /\ status = "running"

\* the three kinds of Delimiter: a char, a &str (its bytes), a predicate on
\* chars (the set of chars it accepts)
CharDelim(c)  == [kind |-> "char", c |-> c,   pat |-> <<>>, set |-> {}]
StrDelim(pat) == [kind |-> "str",  c |-> "",  pat |-> pat,  set |-> {}]
PredDelim(cs) == [kind |-> "pred", c |-> "",  pat |-> <<>>, set |-> cs]

SplitVarsInit == SplitVarsStart(<<>>, CharDelim(","))

OthersInit == SpinVarsInit /\ CellVarsInit /\ FlatVarsInit /\ SplitVarsInit

\* channel(): Shared::new(), Inner::new(), one Sender, one Receiver
InnerNewQueue        == <<>>
InnerNewSenders      == 1
InnerNewDisconnected == FALSE

ChanVarsInit ==
    /\ queue = InnerNewQueue
    /\ senders = InnerNewSenders
    /\ disconnected = InnerNewDisconnected
    /\ lock = Free
    /\ buffer = <<>>
    /\ spc = [h \in Handles |-> IF h = 1 THEN "idle" ELSE "none"]
    /\ sval = [h \in Handles |-> NoVal]
    /\ sres = [h \in Handles |-> <<"none">>]
    /\ nsent = [h \in Handles |-> 0]
    /\ rpc = "idle"
    /\ rres = <<"none", "none">>
    /\ received = <<>>
    /\ sentOk = <<>>
    /\ discAt = -1
    /\ notified = FALSE
    /\ dropAt = -1

Init == ChanVarsInit /\ OthersInit

\* ------------------------------------------------------------ Sender::send
\* the call, up to lock() returning the guard: the argument t is the handle's
\* next value
SendLock(h) ==
    /\ spc[h] = "idle"
    /\ TotalSends < MaxSends
    /\ lock = Free
    /\ lock' = h
    /\ spc' = [spc EXCEPT ![h] = "send_body"]
    /\ nsent' = [nsent EXCEPT ![h] = @ + 1]
    /\ sval' = [sval EXCEPT ![h] = <<h, nsent[h] + 1>>]
    /\ sres' = [sres EXCEPT ![h] = <<"pending">>]
    /\ UNCHANGED <<inner, recver, hist>>
    /\ UNCHANGED others

\* (a variant that pushes at the front, to test the FIFO claim)
SendQueue_PushFront(q, t) == <<t>> \o q

\* (variants: send signals only from the second value on; send does not look
\* at the disconnected flag)
SendNotifies_Late(q, t) == Len(q) = 1
\* (variant: every send signals)
SendNotifies_Always(q, t) == TRUE
SendFails_Never(d) == FALSE

\* whether send returns Err(SendError(t)); otherwise the queue after its
\* push, and whether it signals the condvar
SendFails(d) == d
SendQueue(q, t) == PushBack(q, t)
SendNotifies(q, t) == Len(SendQueue(q, t)) = 1

\* the body under the lock, up to the release of the guard on return
SendBody(h) ==
    /\ spc[h] = "send_body"
    /\ lock = h
    /\ IF SendFails(disconnected)
         THEN /\ sres' = [sres EXCEPT ![h] = <<"Err", sval[h]>>]
              /\ UNCHANGED <<queue, rpc, sentOk, notified>>
         ELSE /\ queue' = SendQueue(queue, sval[h])
              /\ rpc' = IF SendNotifies(queue, sval[h]) THEN NotifyOne(rpc) ELSE rpc
              /\ notified' = SendNotifies(queue, sval[h])
              /\ sres' = [sres EXCEPT ![h] = <<"Ok">>]
              /\ sentOk' = Append(sentOk, sval[h])
    /\ lock' = Free
    /\ spc' = [spc EXCEPT ![h] = "idle"]
    /\ UNCHANGED <<senders, disconnected, buffer, sval, nsent, rres, received, discAt, dropAt>>
    /\ UNCHANGED others

\* ----------------------------------------------------------- Sender::clone
FreshHandle == CHOOSE g \in Handles : spc[g] = "none" /\ \A k \in Handles : spc[k] = "none" => g <= k

CloneLock(h) ==
    /\ spc[h] = "idle"
    /\ \E g \in Handles : spc[g] = "none"
    /\ lock = Free
    /\ lock' = h
    /\ spc' = [spc EXCEPT ![h] = "clone_body"]
    /\ UNCHANGED <<inner, sval, sres, nsent, recver, hist>>
    /\ UNCHANGED others

\* (variant: a clone is not counted)
CloneSenders_Same(n) == n

CloneSenders(n) == n + 1

CloneBody(h) ==
    /\ spc[h] = "clone_body"
    /\ lock = h
    /\ senders' = CloneSenders(senders)
    /\ spc' = [spc EXCEPT ![h] = "idle", ![FreshHandle] = "idle"]
    /\ lock' = Free
    /\ UNCHANGED <<queue, disconnected, sval, sres, nsent, recver, hist>>
    /\ UNCHANGED others

\* -------------------------------------------------------- Drop for Sender
DropLock(h) ==
    /\ spc[h] = "idle"
    /\ lock = Free
    /\ lock' = h
    /\ spc' = [spc EXCEPT ![h] = "drop_dec"]
    /\ UNCHANGED <<inner, sval, sres, nsent, recver, hist>>
    /\ UNCHANGED others

\* usize arithmetic: a handle is dropped once, after it was counted, so the
\* subtraction is never applied to 0
DropSenders(n) == n - 1

\* inner.senders -= 1
DropDec(h) ==
    /\ spc[h] = "drop_dec"
    /\ lock = h
    /\ senders' = DropSenders(senders)
    /\ spc' = [spc EXCEPT ![h] = "drop_set"]
    /\ UNCHANGED <<queue, disconnected, lock, sval, sres, nsent, recver, hist>>
    /\ UNCHANGED others

\* (variants: the flag is never set; the comparison is off by one)
DropDisconnected_Never(n) == FALSE
DropDisconnected_OffByOne(n) == n <= 1
\* (variant: every drop of a Sender disconnects)
DropDisconnected_Always(n) == TRUE

\* (variant: the last drop wakes nobody)
DropNotify_None(pc) == pc

DropDisconnected(n) == n = 0
DropNotify(pc) == NotifyAll(pc)

\* inner.disconnected = inner.senders == 0; notify_all if set; guard released
DropSet(h) ==
    /\ spc[h] = "drop_set"
    /\ lock = h
    /\ disconnected' = DropDisconnected(senders)
    /\ rpc' = IF DropDisconnected(senders) THEN DropNotify(rpc) ELSE rpc
    /\ lock' = Free
    /\ spc' = [spc EXCEPT ![h] = "gone"]
    /\ discAt' = IF DropDisconnected(senders) /\ discAt = -1 THEN Len(received) ELSE discAt
    /\ UNCHANGED <<queue, senders, buffer, sval, sres, nsent, rres, received, sentOk, notified, dropAt>>
    /\ UNCHANGED others

\* ------------------------------------------------- Receiver::recv / try_recv
\* the first statement of both: if let Some(t) = self.get_buffer().pop_front()
\* returns at once, without the lock
\* (variant: the buffer is never looked at first)
BufferPops_Never(b) == FALSE

\* whether pop_front on the buffer gives Some(t)
BufferPops(b) == b # <<>>

RecvBuffered(op) ==
    /\ rpc = "idle"
    /\ BufferPops(buffer)
    /\ rres' = <<op, "Ok", PopFrontElem(buffer)>>
    /\ received' = Append(received, PopFrontElem(buffer))
    /\ buffer' = PopFrontRest(buffer)
    /\ UNCHANGED <<inner, lock, rpc, sender, hist>>
    /\ UNCHANGED others

\* otherwise: let mut inner = self.shared.inner.lock().unwrap()
RecvLock(op) ==
    /\ rpc = "idle"
    /\ ~BufferPops(buffer)
    /\ lock = Free
    /\ lock' = Rx
    /\ rres' = <<op, "pending">>
    /\ rpc' = IF op = "recv" THEN "recv_match" ELSE "try_match"
    /\ UNCHANGED <<inner, buffer, received, sender, hist>>
    /\ UNCHANGED others

\* Condvar::wait takes the mutex again before it returns
RecvRelock ==
    /\ rpc = "recv_woken"
    /\ lock = Free
    /\ lock' = Rx
    /\ rpc' = "recv_match"
    /\ UNCHANGED <<inner, buffer, rres, received, sender, hist>>
    /\ UNCHANGED others

\* (variants: the rest of the queue is copied rather than swapped out; the
\* rest of the queue is discarded rather than kept in the buffer)
TakeQueue_Copy(q, b) == PopFrontRest(q)
\* (variants: the newest value is taken rather than the oldest; the rest of
\* the queue reaches the buffer in reverse order)
TakeValue_Back(q, b) == q[Len(q)]
TakeBuffer_Reversed(q, b) == [i \in 1..(Len(q) - 1) |-> q[Len(q) + 1 - i]]
TakeBuffer_Discard(q, b) == b

\* the Some(t) arm: t was popped, then mem::swap(self.get_buffer(), &mut inner.queue)
TakeValue(q, b)  == PopFrontElem(q)
TakeBuffer(q, b) == Swap(b, PopFrontRest(q))[1]
TakeQueue(q, b)  == Swap(b, PopFrontRest(q))[2]

\* what the None arms do: recv fails only if disconnected and waits otherwise,
\* try_recv never waits
\* (variant: the two None arms of try_recv exchanged)
TryNoneResult_Swapped(d) == IF d THEN "Empty" ELSE "Disconnected"

\* (variant: recv waits whether or not the channel is disconnected)
RecvNoneFails_Never(d) == FALSE
\* (variant: recv fails on every empty queue)
RecvNoneFails_Always(d) == TRUE

RecvNoneFails(d) == d
TryNoneResult(d) == IF d THEN "Disconnected" ELSE "Empty"

\* one pass of recv's loop under the lock
RecvMatch ==
    /\ rpc = "recv_match"
    /\ lock = Rx
    /\ lock' = Free
    /\ IF queue # <<>>
         THEN /\ rres' = <<"recv", "Ok", TakeValue(queue, buffer)>>
              /\ received' = Append(received, TakeValue(queue, buffer))
              /\ buffer' = TakeBuffer(queue, buffer)
              /\ queue' = TakeQueue(queue, buffer)
              /\ rpc' = "idle"
         ELSE IF RecvNoneFails(disconnected)
         THEN /\ rres' = <<"recv", "RecvError">>
              /\ rpc' = "idle"
              /\ queue' = PopFrontNone(queue)
              /\ UNCHANGED <<buffer, received>>
         ELSE \* Condvar::wait: releases the mutex and blocks, atomically
              /\ rpc' = "recv_wait"
              /\ queue' = PopFrontNone(queue)
              /\ UNCHANGED <<buffer, rres, received>>
    /\ UNCHANGED <<senders, disconnected, sender, hist>>
    /\ UNCHANGED others

\* Condvar::wait may return without any notification
SpuriousWakeup ==
    /\ rpc = "recv_wait"
    /\ rpc' = "recv_woken"
    /\ UNCHANGED <<inner, lock, buffer, rres, received, sender, hist>>
    /\ UNCHANGED others

\* the match of try_recv under the lock
TryMatch ==
    /\ rpc = "try_match"
    /\ lock = Rx
    /\ lock' = Free
    /\ rpc' = "idle"
    /\ IF queue # <<>>
         THEN /\ rres' = <<"try_recv", "Ok", TakeValue(queue, buffer)>>
              /\ received' = Append(received, TakeValue(queue, buffer))
              /\ buffer' = TakeBuffer(queue, buffer)
              /\ queue' = TakeQueue(queue, buffer)
         ELSE /\ rres' = <<"try_recv", TryNoneResult(disconnected)>>
              /\ queue' = PopFrontNone(queue)
              /\ UNCHANGED <<buffer, received>>
    /\ UNCHANGED <<senders, disconnected, sender, hist>>
    /\ UNCHANGED others

\* (variant: the drop of the Receiver disconnects the channel)
RecvDropDisconnected_Set(d) == TRUE

\* the disconnected flag after the drop of the Receiver: Receiver has no Drop
\* impl, its fields are dropped and Inner is not touched
RecvDropDisconnected(d) == d

\* the Receiver goes out of scope
RecvDrop ==
    /\ rpc = "idle"
    /\ rpc' = "dropped"
    /\ disconnected' = RecvDropDisconnected(disconnected)
    /\ dropAt' = Len(sentOk)
    /\ UNCHANGED <<queue, senders, lock, buffer, rres, received, sender, sentOk, discAt, notified>>
    /\ UNCHANGED others

\* ---------------------------------------------------------------- Next
Next ==
    \/ \E h \in Handles : SendLock(h)
    \/ \E h \in Handles : SendBody(h)
    \/ \E h \in Handles : CloneLock(h)
    \/ \E h \in Handles : CloneBody(h)
    \/ \E h \in Handles : DropLock(h)
    \/ \E h \in Handles : DropDec(h)
    \/ \E h \in Handles : DropSet(h)
    \/ \E op \in {"recv", "try_recv"} : RecvBuffered(op)
    \/ \E op \in {"recv", "try_recv"} : RecvLock(op)
    \/ RecvRelock
    \/ RecvMatch
    \/ SpuriousWakeup
    \/ TryMatch
    \/ RecvDrop

Spec == Init /\ [][Next]_vars

\* Fair scheduling: a thread that holds the mutex runs on to the release, and
\* a woken Receiver gets the mutex once it is free (the calls are bounded, so
\* the mutex cannot be taken from it for ever).  Starting a call is never
\* forced, and neither is a spurious wakeup.
Fairness ==
    /\ \A h \in Handles : WF_vars(SendBody(h))
    /\ \A h \in Handles : WF_vars(CloneBody(h))
    /\ \A h \in Handles : WF_vars(DropDec(h))
    /\ \A h \in Handles : WF_vars(DropSet(h))
    /\ WF_vars(RecvRelock)
    /\ WF_vars(RecvMatch)
    /\ WF_vars(TryMatch)

FairSpec == Spec /\ Fairness

\* --------------------------------------------- send as a function of Inner
\* Sender::send applied to every value Inner can hold, the disconnected ones
\* included: n counted senders, k values queued by earlier sends, the Receiver
\* idle or blocked in recv on the empty open channel.  Handle 1 is the caller
\* also where the count is 0.
EarlierValues == [i \in 1..MaxSends |-> <<0, i>>]

SendInit ==
    \E n \in 0..MaxHandles, k \in 0..MaxSends, w \in BOOLEAN :
        /\ queue = SubSeq(EarlierValues, 1, k)
        /\ senders = n
        /\ disconnected = (n = 0)
        /\ lock = Free
        /\ buffer = <<>>
        /\ spc = [h \in Handles |-> IF h = 1 \/ h <= n THEN "idle" ELSE "none"]
        /\ sval = [h \in Handles |-> NoVal]
        /\ sres = [h \in Handles |-> <<"none">>]
        /\ nsent = [h \in Handles |-> 0]
        /\ rpc = IF w /\ k = 0 /\ n > 0 THEN "recv_wait" ELSE "idle"
        /\ rres = IF w /\ k = 0 /\ n > 0 THEN <<"recv", "pending">> ELSE <<"none", "none">>
        /\ received = <<>>
        /\ sentOk = SubSeq(EarlierValues, 1, k)
        /\ discAt = IF n = 0 THEN 0 ELSE -1
        /\ notified = FALSE
        /\ dropAt = -1
        /\ OthersInit

SendNext ==
    \/ \E h \in Handles : SendLock(h)
    \/ \E h \in Handles : SendBody(h)

SendSpec == SendInit /\ [][SendNext]_vars

\* ================================================================ SpinLock
\* src/memory_order/src/lib.rs.  Each thread repeats what tests::it_works does
\* with res_spinlock: `*lock() += 1`, that is lock(), a read of the data
\* through the guard, a write of the sum, and the drop of the guard.  The
\* atomic operations on `locked` are steps; the accesses to `data` are plain
\* reads and writes of their own, so an update is lost if two guards coexist.

\* the call of lock()
SpinLockCall(t) ==
    /\ tpc[t] = "idle"
    /\ rounds[t] < MaxRounds
    /\ tpc' = [tpc EXCEPT ![t] = "cas"]
    /\ UNCHANGED <<locked, data, tmp, rounds, notSpin>>

\* (variant: the exchange does not compare)
CasSucceeds_Always(l) == TRUE

\* compare_exchange_weak(false, true, ..): whether the comparison allows the
\* exchange; a weak exchange may also fail when it does
CasSucceeds(l) == l = FALSE

\* one evaluation of the outer while condition: on success the guard is
\* returned, on failure the thread enters the inner loop
SpinCas(t) ==
    /\ tpc[t] = "cas"
    /\ \E spurious \in BOOLEAN :
         IF CasSucceeds(locked) /\ ~spurious
           THEN /\ locked' = TRUE
                /\ tpc' = [tpc EXCEPT ![t] = "read"]
           ELSE /\ tpc' = [tpc EXCEPT ![t] = "spin"]
                /\ UNCHANGED locked
    /\ UNCHANGED <<data, tmp, rounds, notSpin>>

\* while self.locked.load(Relaxed) {}: the loop is left when false is read
SpinLoad(t) ==
    /\ tpc[t] = "spin"
    /\ ~locked
    /\ tpc' = [tpc EXCEPT ![t] = "cas"]
    /\ UNCHANGED <<locked, data, tmp, rounds, notSpin>>

\* Deref through the guard: the read of the data
GuardRead(t) ==
    /\ tpc[t] = "read"
    /\ tmp' = [tmp EXCEPT ![t] = data]
    /\ tpc' = [tpc EXCEPT ![t] = "write"]
    /\ UNCHANGED <<locked, data, rounds, notSpin>>

\* DerefMut through the guard: the write of the sum
GuardWrite(t) ==
    /\ tpc[t] = "write"
    /\ data' = tmp[t] + 1
    /\ tpc' = [tpc EXCEPT ![t] = "unlock"]
    /\ UNCHANGED <<locked, tmp, rounds, notSpin>>

\* SpinLock::unlock: self.locked.store(false, Release)
UnlockStore == FALSE

\* Drop for SpinLockGuard
GuardDrop(t) ==
    /\ tpc[t] = "unlock"
    /\ locked' = UnlockStore
    /\ rounds' = [rounds EXCEPT ![t] = @ + 1]
    /\ tpc' = [tpc EXCEPT ![t] = "idle"]
    /\ UNCHANGED <<data, tmp, notSpin>>

SpinInit == ChanVarsInit /\ OthersInit

SpinNext ==
    \/ \E t \in Threads : SpinLockCall(t)
    \/ \E t \in Threads : SpinCas(t)
    \/ \E t \in Threads : SpinLoad(t)
    \/ \E t \in Threads : GuardRead(t)
    \/ \E t \in Threads : GuardWrite(t)
    \/ \E t \in Threads : GuardDrop(t)

SpinSpec == SpinInit /\ [][SpinNext]_vars

\* ================================================================= RefCell
\* src/smartptrs/src/refcell.rs.  A guard returned by borrow / borrow_mut is
\* kept in a free place until it is dropped.  A panic leaves the cell as it
\* was and is recorded as the outcome of the call.

\* (variant: borrow_mut refuses only an exclusive borrow)
BorrowMutState_Shared(st) == IF st # ExclusiveBorrow THEN ExclusiveBorrow ELSE <<"panic">>

\* the new state set by borrow, or <<"panic">>
BorrowState(st) ==
    IF st = UnBorrow THEN SharedBorrow(1)
    ELSE IF st[1] = "SharedBorrow" THEN SharedBorrow(st[2] + 1)
    ELSE <<"panic">>

\* the new state set by borrow_mut, or <<"panic">>
BorrowMutState(st) ==
    IF st = UnBorrow THEN ExclusiveBorrow ELSE <<"panic">>

\* the new state set by Drop for Ref, or <<"unreachable">>
DropRefState(st) ==
    IF st[1] = "SharedBorrow"
      THEN IF st[2] = 1 THEN UnBorrow ELSE SharedBorrow(st[2] - 1)
      ELSE <<"unreachable">>

\* the new state set by Drop for RefMut, or <<"unreachable">>
DropRefMutState(st) ==
    IF st = ExclusiveBorrow THEN UnBorrow ELSE <<"unreachable">>

Flip(b) == 1 - b

\* RefCell::borrow, the Ref kept in place i
Borrow(i) ==
    /\ guards[i] = "none"
    /\ IF BorrowState(state) = <<"panic">>
         THEN /\ bres' = <<"borrow", "panic">>
              /\ UNCHANGED <<state, guards>>
         ELSE /\ state' = BorrowState(state)
              /\ guards' = [guards EXCEPT ![i] = "Ref"]
              /\ bres' = <<"borrow", "ok">>
    /\ bseq' = Flip(bseq)
    /\ UNCHANGED <<value, notCell>>

\* RefCell::borrow_mut, the RefMut kept in place i
BorrowMut(i) ==
    /\ guards[i] = "none"
    /\ IF BorrowMutState(state) = <<"panic">>
         THEN /\ bres' = <<"borrow_mut", "panic">>
              /\ UNCHANGED <<state, guards>>
         ELSE /\ state' = BorrowMutState(state)
              /\ guards' = [guards EXCEPT ![i] = "RefMut"]
              /\ bres' = <<"borrow_mut", "ok">>
    /\ bseq' = Flip(bseq)
    /\ UNCHANGED <<value, notCell>>

\* DerefMut for RefMut: a write through the guard in place i
RefMutWrite(i) ==
    /\ guards[i] = "RefMut"
    /\ value < MaxWrites
    /\ value' = value + 1
    /\ bres' = <<"write", "ok">>
    /\ bseq' = Flip(bseq)
    /\ UNCHANGED <<state, guards, notCell>>

\* Drop for Ref
DropRef(i) ==
    /\ guards[i] = "Ref"
    /\ guards' = [guards EXCEPT ![i] = "none"]
    /\ IF DropRefState(state) = <<"unreachable">>
         THEN /\ bres' = <<"drop_ref", "panic">>
              /\ UNCHANGED state
         ELSE /\ state' = DropRefState(state)
              /\ bres' = <<"drop_ref", "ok">>
    /\ bseq' = Flip(bseq)
    /\ UNCHANGED <<value, notCell>>

\* Drop for RefMut
DropRefMut(i) ==
    /\ guards[i] = "RefMut"
    /\ guards' = [guards EXCEPT ![i] = "none"]
    /\ IF DropRefMutState(state) = <<"unreachable">>
         THEN /\ bres' = <<"drop_refmut", "panic">>
              /\ UNCHANGED state
         ELSE /\ state' = DropRefMutState(state)
              /\ bres' = <<"drop_refmut", "ok">>
    /\ bseq' = Flip(bseq)
    /\ UNCHANGED <<value, notCell>>

CellInit == ChanVarsInit /\ OthersInit

CellNext ==
    \/ \E i \in Places : Borrow(i)
    \/ \E i \in Places : BorrowMut(i)
    \/ \E i \in Places : RefMutWrite(i)
    \/ \E i \in Places : DropRef(i)
    \/ \E i \in Places : DropRefMut(i)

CellSpec == CellInit /\ [][CellNext]_vars

\* =============================================================== my_flatten
\* src/iterator/src/lib.rs.  The outer iterator and the inner iterators are
\* iterators over finite sequences (vec::IntoIter): next takes the first item
\* of what is left, next_back the last, and both return None when nothing is.

\* Iterator::next and DoubleEndedIterator::next_back of such an iterator: the
\* pair (returned Option, what is left)
ItNext(it) == IF it = <<>> THEN <<None, <<>>>> ELSE <<Some(Head(it)), Tail(it)>>
ItNextBack(it) ==
    IF it = <<>> THEN <<None, <<>>>> ELSE <<Some(it[Len(it)]), SubSeq(it, 1, Len(it) - 1)>>

\* (variant: the last line of next takes from the wrong end of back_iter)
NextFallback_WrongEnd(b) ==
    IF b = None THEN <<None, None>> ELSE <<ItNextBack(b[2])[1], Some(ItNextBack(b[2])[2])>>

\* self.back_iter.as_mut()?.next(): the pair (returned Option, new back_iter)
NextFallback(b) ==
    IF b = None THEN <<None, None>> ELSE <<ItNext(b[2])[1], Some(ItNext(b[2])[2])>>

\* self.front_iter.as_mut()?.next_back(): (returned Option, new front_iter)
NextBackFallback(f) ==
    IF f = None THEN <<None, None>> ELSE <<ItNextBack(f[2])[1], Some(ItNextBack(f[2])[2])>>

\* FlattenCompat::next: the loop, on st = [outer, front, back]; the result is
\* [ret, st]
RECURSIVE FlatNextLoop(_)
FlatNextLoop(st) ==
    IF st.front # None /\ ItNext(st.front[2])[1] # None
      THEN [ret |-> ItNext(st.front[2])[1],
            st  |-> [st EXCEPT !.front = Some(ItNext(st.front[2])[2])]]
      ELSE LET o == ItNext(st.outer)
           IN  IF o[1] # None
                 THEN FlatNextLoop([st EXCEPT !.front = Some(o[1][2]), !.outer = o[2]])
                 ELSE [ret |-> NextFallback(st.back)[1],
                       st  |-> [st EXCEPT !.front = None, !.outer = o[2],
                                          !.back = NextFallback(st.back)[2]]]

\* FlattenCompat::next_back: the loop
RECURSIVE FlatNextBackLoop(_)
FlatNextBackLoop(st) ==
    IF st.back # None /\ ItNextBack(st.back[2])[1] # None
      THEN [ret |-> ItNextBack(st.back[2])[1],
            st  |-> [st EXCEPT !.back = Some(ItNextBack(st.back[2])[2])]]
      ELSE LET o == ItNextBack(st.outer)
           IN  IF o[1] # None
                 THEN FlatNextBackLoop([st EXCEPT !.back = Some(o[1][2]), !.outer = o[2]])
                 ELSE [ret |-> NextBackFallback(st.front)[1],
                       st  |-> [st EXCEPT !.back = None, !.outer = o[2],
                                          !.front = NextBackFallback(st.front)[2]]]

FlatState == [outer |-> outer_iter, front |-> front_iter, back |-> back_iter]

\* Flatten::next, and next of the standard flatten on the same input
FlatNext ==
    /\ outer_iter' = FlatNextLoop(FlatState).st.outer
    /\ front_iter' = FlatNextLoop(FlatState).st.front
    /\ back_iter' = FlatNextLoop(FlatState).st.back
    /\ fres' = <<"next", FlatNextLoop(FlatState).ret>>
    /\ fexp' = ItNext(std_rest)[1]
    /\ std_rest' = ItNext(std_rest)[2]
    /\ UNCHANGED notFlat

\* Flatten::next_back, and next_back of the standard flatten
FlatNextBack ==
    /\ outer_iter' = FlatNextBackLoop(FlatState).st.outer
    /\ front_iter' = FlatNextBackLoop(FlatState).st.front
    /\ back_iter' = FlatNextBackLoop(FlatState).st.back
    /\ fres' = <<"next_back", FlatNextBackLoop(FlatState).ret>>
    /\ fexp' = ItNextBack(std_rest)[1]
    /\ std_rest' = ItNextBack(std_rest)[2]
    /\ UNCHANGED notFlat

\* every input of at most MaxOuter inner sequences of at most MaxInner items
FlatInit ==
    /\ ChanVarsInit /\ SpinVarsInit /\ CellVarsInit /\ SplitVarsInit
    /\ \E n \in 0..MaxOuter : \E lens \in [1..n -> 0..MaxInner] : FlatVarsStart(lens)

FlatNextStep == FlatNext \/ FlatNextBack

FlatSpec == FlatInit /\ [][FlatNextStep]_vars

\* ==================================================================== split
\* src/lifetime/src/lib.rs.  A str is the sequence of its UTF-8 bytes; byte k
\* of a char c is <<c, k>>.  "a" and "," are one byte long, "E" stands for a
\* char of two bytes (such as U+00E9).

Chars == {"a", ",", "E"}

\* char::len_utf8
LenUtf8(c) == IF c = "E" THEN 2 ELSE 1

CharBytes(c) == [k \in 1..LenUtf8(c) |-> <<c, k>>]

RECURSIVE StrBytes(_)
StrBytes(cs) == IF cs = <<>> THEN <<>> ELSE CharBytes(Head(cs)) \o StrBytes(Tail(cs))

Min(S) == CHOOSE x \in S : \A y \in S : x <= y

\* str::is_char_boundary
IsCharBoundary(b, i) == i = 0 \/ i = Len(b) \/ (i < Len(b) /\ b[i + 1][2] = 1)

\* &s[..start] and &s[end..]; both panic off a char boundary
SliceTo(b, start) == SubSeq(b, 1, start)
SliceFrom(b, end) == SubSeq(b, end + 1, Len(b))

\* impl Delimiter for char: char_indices().find(..), (idx, idx + len_utf8())
FindNextChar(c, b) ==
    LET P == {i \in 1..Len(b) : b[i] = <<c, 1>>}
    IN  IF P = {} THEN None ELSE Some(<<Min(P) - 1, Min(P) - 1 + LenUtf8(c)>>)

\* impl Delimiter for &str: s.find(self), (idx, idx + self.len())
FindNextStr(pat, b) ==
    LET P == {i \in 0..(Len(b) - Len(pat)) : SubSeq(b, i + 1, i + Len(pat)) = pat}
    IN  IF P = {} THEN None ELSE Some(<<Min(P), Min(P) + Len(pat)>>)

\* impl Delimiter for F: s.find(self), (idx, idx + 1)
FindNextPred(cs, b) ==
    LET P == {i \in 1..Len(b) : b[i][2] = 1 /\ b[i][1] \in cs}
    IN  IF P = {} THEN None ELSE Some(<<Min(P) - 1, Min(P) - 1 + 1>>)

\* Delimiter::find_next
FindNext(d, b) ==
    IF d.kind = "char" THEN FindNextChar(d.c, b)
    ELSE IF d.kind = "str" THEN FindNextStr(d.pat, b)
    ELSE FindNextPred(d.set, b)

\* Iterator::next of Split
SplitNext ==
    /\ status = "running"
    /\ Len(pieces) <= MaxPieces
    /\ IF remainder = None
         THEN /\ status' = "ended"
              /\ UNCHANGED <<remainder, pieces>>
         ELSE LET str == remainder[2]
                  f == FindNext(delimiter, str)
              IN  IF f = None
                    THEN /\ pieces' = Append(pieces, str)
                         /\ remainder' = None
                         /\ UNCHANGED status
                    ELSE IF /\ IsCharBoundary(str, f[2][1])
                            /\ IsCharBoundary(str, f[2][2])
                            /\ f[2][2] <= Len(str)
                    THEN /\ pieces' = Append(pieces, SliceTo(str, f[2][1]))
                         /\ remainder' = Some(SliceFrom(str, f[2][2]))
                         /\ UNCHANGED status
                    ELSE /\ status' = "panicked"
                         /\ UNCHANGED <<remainder, pieces>>
    /\ UNCHANGED <<input, delimiter, notSplit>>

\* the strings of at most n chars
RECURSIVE StrsUpTo(_)
StrsUpTo(n) ==
    IF n = 0 THEN {<<>>}
    ELSE StrsUpTo(n - 1) \cup {Append(cs, c) : cs \in {x \in StrsUpTo(n - 1) : Len(x) = n - 1}, c \in Chars}

Delimiters ==
    {CharDelim(","), CharDelim("E"),
     StrDelim(StrBytes(<<",">>)), StrDelim(StrBytes(<<",", ",">>)), StrDelim(StrBytes(<<"E", ",">>)),
     StrDelim(<<>>),
     PredDelim({","}), PredDelim({"E"}), PredDelim({",", "E"})}

\* split(s, delimiter) for every string of at most MaxStrLen chars and each
\* of the delimiters
SplitInit ==
    /\ ChanVarsInit /\ SpinVarsInit /\ CellVarsInit /\ FlatVarsInit
    /\ \E cs \in StrsUpTo(MaxStrLen), d \in Delimiters : SplitVarsStart(StrBytes(cs), d)

SplitSpec == SplitInit /\ [][SplitNext]_vars

\* ---- the standard library's str::split, for comparison (the `expect` of the
\* tests): the pieces between the matches of the pattern, left to right
StdMatch(d, b) ==
    IF d.kind = "str"
      THEN LET P == {i \in 0..(Len(b) - Len(d.pat)) : SubSeq(b, i + 1, i + Len(d.pat)) = d.pat}
           IN  IF P = {} THEN None ELSE Some(<<Min(P), Min(P) + Len(d.pat)>>)
      ELSE LET cs == IF d.kind = "char" THEN {d.c} ELSE d.set
               P == {i \in 1..Len(b) : b[i][2] = 1 /\ b[i][1] \in cs}
           IN  IF P = {} THEN None
               ELSE Some(<<Min(P) - 1, Min(P) - 1 + LenUtf8(b[Min(P)][1])>>)

\* the chars of a str, each as its bytes
RECURSIVE CharsOf(_)
CharsOf(b) ==
    IF b = <<>> THEN <<>>
    ELSE <<SubSeq(b, 1, LenUtf8(b[1][1]))>> \o CharsOf(SubSeq(b, LenUtf8(b[1][1]) + 1, Len(b)))

RECURSIVE StdSplitFrom(_, _)
StdSplitFrom(b, d) ==
    IF StdMatch(d, b) = None THEN <<b>>
    ELSE <<SliceTo(b, StdMatch(d, b)[2][1])>> \o StdSplitFrom(SliceFrom(b, StdMatch(d, b)[2][2]), d)

\* the empty pattern matches at every char boundary
StdSplit(b, d) ==
    IF d.kind = "str" /\ d.pat = <<>>
      THEN <<<<>>>> \o CharsOf(b) \o <<<<>>>>
      ELSE StdSplitFrom(b, d)

\* ================================================================ claims
\* the values of s that handle h sent, in the order of s
FromHandle(s, h) == SelectSeq(s, LAMBDA v : v[1] = h)

IsPrefix(a, b) == Len(a) <= Len(b) /\ SubSeq(b, 1, Len(a)) = a

\* the multiset of the elements of a sequence
BagOf(s) == [v \in Range(s) |-> Cardinality({i \in DOMAIN s : s[i] = v})]

\* values sent and not yet returned, in the order the Receiver will see them
Pending == buffer \o queue

\* every Sender handle that was created has completed its drop
LastSenderDropped == \A h \in Handles : spc[h] \in {"none", "gone"}
SenderAlive == \E h \in Handles : spc[h] \notin {"none", "gone"}

\* the step is the return of a recv / try_recv call
RecvReturns == rpc' = "idle" /\ rres' # rres

\* C1: for every Sender handle, the values the Receiver has obtained from it
\* are the first values that handle sent, in the order it sent them (its k-th
\* received value is its k-th sent value), whatever the interleaving of send,
\* clone, drop, recv and try_recv.
C1_PerSenderFifo ==
    \A h \in Handles :
        /\ IsPrefix(FromHandle(received, h), FromHandle(sentOk, h))
        /\ \A i \in DOMAIN FromHandle(sentOk, h) : FromHandle(sentOk, h)[i] = <<h, i>>

\* a send made after the first receive, and a batch of more than one value
\* swapped into the buffer: two values returned, one more waiting in the buffer
C1_Witness ==
    /\ Len(received) >= 2
    /\ buffer # <<>>
    /\ rres[2] = "Ok"
    /\ rres[3] = received[Len(received)]

\* C2: nothing is duplicated or dropped: the values received, those in the
\* local buffer and those in the shared queue are together exactly the values
\* successfully sent, as multisets; when the channel is drained the received
\* multiset is the sent multiset.
C2_Conservation ==
    /\ BagOf(received \o buffer \o queue) = BagOf(sentOk)
    /\ Len(received) + Len(buffer) + Len(queue) = Len(sentOk)

\* several handles have sent, and the Receiver has drained everything
C2_Witness ==
    /\ Cardinality({v[1] : v \in Range(sentOk)}) >= 2
    /\ Len(sentOk) >= 3
    /\ Pending = <<>>
    /\ BagOf(received) = BagOf(sentOk)

\* C3: once the last Sender is dropped and queue and buffer are empty, that
\* stays so, every recv that returns returns RecvError, every try_recv that
\* returns returns Disconnected, and no call starts waiting.
Closed == LastSenderDropped /\ Pending = <<>>

C3_ClosedForever ==
    [][Closed =>
        /\ Closed'
        /\ (rpc # "recv_wait" => rpc' # "recv_wait")
        /\ (RecvReturns =>
              rres' \in {<<"recv", "RecvError">>, <<"try_recv", "Disconnected">>})]_vars

\* all handles were created and dropped, and a recv call has returned RecvError
C3_Witness ==
    /\ Closed
    /\ \A h \in Handles : spc[h] = "gone"
    /\ rres = <<"recv", "RecvError">>

\* C4: after the last Sender is dropped, a recv / try_recv call that returns
\* while values are pending returns the oldest pending value (buffer first,
\* then queue); an error for disconnection is reported only when every value
\* sent has been returned.
C4_DrainBeforeDisconnect ==
    /\ [](rres[2] \in {"RecvError", "Disconnected"} => received = sentOk)
    /\ [][(LastSenderDropped /\ Pending # <<>> /\ RecvReturns) =>
            /\ rres'[2] = "Ok"
            /\ rres'[3] = Head(Pending)
            /\ received' = Append(received, Head(Pending))]_vars

\* at least two values were returned after the disconnection, and then the
\* disconnection was reported
C4_Witness ==
    /\ discAt >= 0
    /\ Len(received) >= discAt + 2
    /\ rres[2] \in {"RecvError", "Disconnected"}

\* C5: try_recv under the lock with queue and buffer empty and a Sender alive
\* returns Empty; a thread waiting on the condition variable (or on its way
\* back from it) is always inside recv, never inside try_recv.
C5_TryRecvNeverBlocks ==
    /\ [](rpc \in {"recv_wait", "recv_woken"} => rres = <<"recv", "pending">>)
    /\ [](rpc = "try_match" => rres = <<"try_recv", "pending">>)
    /\ [][rpc = "try_match" =>
            /\ rpc' = "idle"
            /\ (Pending = <<>> /\ SenderAlive => rres' = <<"try_recv", "Empty">>)]_vars

\* try_recv has returned Empty on an open, empty channel
C5_Witness ==
    /\ rres = <<"try_recv", "Empty">>
    /\ rpc = "idle"
    /\ SenderAlive
    /\ Pending = <<>>

\* C6: whenever the lock is not held, disconnected is true exactly when the
\* sender count is 0.
C6_DisconnectedIffNoSenders ==
    lock = Free => (disconnected <=> senders = 0)

\* clones and drops have both happened: every handle was created and dropped
C6_Witness ==
    /\ lock = Free
    /\ disconnected
    /\ senders = 0
    /\ \A h \in Handles : spc[h] = "gone"

\* C7: a recv that is blocked on the condition variable (or on its way back
\* from it) while the shared queue holds a value returns Ok with a value.
C7_BlockedRecvGetsValue ==
    (rpc \in {"recv_wait", "recv_woken"} /\ queue # <<>>)
        ~> (rpc = "idle" /\ rres[1] = "recv" /\ rres[2] = "Ok")

\* recv was blocked, a first send signalled it and a second send, which sends
\* no signal, followed before recv took the mutex again
C7_Witness ==
    /\ rpc = "recv_woken"
    /\ Len(queue) = 2

\* C8: a recv that is blocked on the condition variable (or on its way back
\* from it) when the last Sender has been dropped and nothing is queued
\* returns RecvError.
C8_BlockedRecvSeesDisconnect ==
    (rpc \in {"recv_wait", "recv_woken"} /\ LastSenderDropped /\ queue = <<>>)
        ~> (rpc = "idle" /\ rres = <<"recv", "RecvError">>)

\* the last drop has completed while recv was blocked; recv has left the wait
C8_Witness ==
    /\ rpc = "recv_woken"
    /\ LastSenderDropped
    /\ disconnected
    /\ queue = <<>>

\* C9: recv is waiting only while buffer and queue are empty and disconnected
\* is false; it starts to wait only from its match under the lock, and in
\* exactly those states; after a wakeup its next step is that match again.
C9_WaitOnlyWhenEmptyAndOpen ==
    /\ [](rpc = "recv_wait" => (buffer = <<>> /\ queue = <<>> /\ ~disconnected))
    /\ [][(rpc # "recv_wait" /\ rpc' = "recv_wait") =>
            /\ rpc = "recv_match"
            /\ lock = Rx
            /\ buffer = <<>> /\ queue = <<>> /\ ~disconnected]_vars
    /\ [][(rpc = "recv_woken" /\ rpc' # "recv_woken") =>
            (rpc' = "recv_match" /\ lock' = Rx)]_vars
    /\ [][rpc = "recv_match" =>
            (rpc' = "recv_wait" <=> (queue = <<>> /\ ~disconnected))]_vars

\* recv waits again after values have been received: it has been through
\* its loop more than once over the run
C9_Witness ==
    /\ rpc = "recv_wait"
    /\ received # <<>>
    /\ SenderAlive

\* C10: send, once it holds the lock, returns in its next step without
\* waiting; if disconnected is true it returns Err(SendError(t)) with the t
\* it was given, and queue, sender count, disconnected flag and the condition
\* variable's waiter are as before.
C10_SendErrorReturnsValue ==
    [][\A h \in Handles : spc[h] = "send_body" =>
          /\ spc'[h] = "idle"
          /\ lock' = Free
          /\ (disconnected =>
                /\ sres'[h] = <<"Err", sval[h]>>
                /\ sval[h] = <<h, nsent[h]>>
                /\ queue' = queue
                /\ senders' = senders
                /\ disconnected' = disconnected
                /\ rpc' = rpc)
          /\ (~disconnected => sres'[h] = <<"Ok">>)]_vars

\* a send on a disconnected channel that still holds values has returned the
\* value in SendError
C10_Witness ==
    \E h \in Handles :
        /\ spc[h] = "idle"
        /\ sres[h] = <<"Err", <<h, nsent[h]>>>>
        /\ disconnected
        /\ queue # <<>>

\* the threads that hold a SpinLockGuard
Guards == {t \in Threads : tpc[t] \in {"read", "write", "unlock"}}

\* C11: at most one SpinLockGuard exists at any moment, it exists only while
\* locked is true, and no update made under a guard is lost: data counts the
\* updates written so far.
C11_SpinLockMutualExclusion ==
    /\ Cardinality(Guards) <= 1
    /\ (Guards # {} => locked)
    /\ data = SumUpTo(rounds, NThreads) + Cardinality({t \in Threads : tpc[t] = "unlock"})

\* one thread updates under its guard while another, which has completed a
\* round before, spins in lock()
C11_Witness ==
    \E t, u \in Threads :
        /\ tpc[t] = "write"
        /\ tpc[u] = "spin"
        /\ rounds[u] >= 1
        /\ data >= 1

LiveRefs    == {i \in Places : guards[i] = "Ref"}
LiveRefMuts == {i \in Places : guards[i] = "RefMut"}

\* C12: a live RefMut is the only live guard; the state is UnBorrow exactly
\* when no guard is live, SharedBorrow(n) with n live Refs, ExclusiveBorrow
\* with a live RefMut; borrow_mut panics exactly when some guard is live and
\* borrow exactly when a RefMut is live; a panic changes nothing; no drop
\* meets an unreachable state.
C12_SharedXorExclusive ==
    /\ [](LiveRefMuts # {} => (Cardinality(LiveRefMuts) = 1 /\ LiveRefs = {}))
    /\ [](state = IF LiveRefMuts # {} THEN ExclusiveBorrow
                  ELSE IF LiveRefs # {} THEN SharedBorrow(Cardinality(LiveRefs))
                  ELSE UnBorrow)
    /\ [][bseq' # bseq =>
            /\ (bres'[1] = "borrow_mut" =>
                  (bres'[2] = "panic" <=> (LiveRefs # {} \/ LiveRefMuts # {})))
            /\ (bres'[1] = "borrow" => (bres'[2] = "panic" <=> LiveRefMuts # {}))
            /\ (bres'[1] \in {"drop_ref", "drop_refmut"} => bres'[2] = "ok")
            /\ (bres'[2] = "panic" => (guards' = guards /\ state' = state))]_vars

\* a RefMut was taken, written through and dropped, Refs were taken after
\* that, and a borrow_mut then panicked
C12_Witness ==
    /\ value >= 1
    /\ Cardinality(LiveRefs) >= 2
    /\ bres = <<"borrow_mut", "panic">>

\* what my_flatten has still to yield, front to back
FlatRest ==
    (IF front_iter = None THEN <<>> ELSE front_iter[2])
        \o Concat(outer_iter)
        \o (IF back_iter = None THEN <<>> ELSE back_iter[2])

\* C13: every call of next and next_back on my_flatten returns what the same
\* call returns on the standard flatten of the same input, and what
\* my_flatten has still to yield is what the standard one has.
C13_FlattenMatchesStd ==
    /\ fres[2] = fexp
    /\ FlatRest = std_rest

\* the two ends have met inside one inner sequence: the outer iterator is
\* used up, and next_back has just taken an item from the front iterator
C13_Witness ==
    /\ fres[1] = "next_back"
    /\ fres[2] # None
    /\ outer_iter = <<>>
    /\ back_iter = None
    /\ front_iter # None
    /\ front_iter[2] # <<>>

\* C14: for every input string and every delimiter, the Split yields the
\* pieces of the standard str::split in the same order and then ends: it does
\* not panic, the pieces yielded so far are the first pieces of the standard
\* split, and when next returns None all of them have been yielded.
C14_SplitMatchesStd ==
    /\ status # "panicked"
    /\ IsPrefix(pieces, StdSplit(input, delimiter))
    /\ (status = "ended" => pieces = StdSplit(input, delimiter))

\* C15: over all Senders together, the values the Receiver has obtained are
\* the first successful sends in the order in which the sends held the lock
\* (sentOk grows inside the locked body of send), and what is still pending
\* follows in that order.
C15_LockOrderAcrossSenders ==
    /\ IsPrefix(received, sentOk)
    /\ IsPrefix(received \o Pending, sentOk)

\* the sends of two handles interleaved (2, 1, 2 or 1, 2, 1 in lock order) and
\* all three values received
C15_Witness ==
    /\ Len(received) = 3
    /\ received[1][1] # received[2][1]
    /\ received[2][1] # received[3][1]

\* C16: a recv / try_recv that holds the lock and finds the shared queue
\* non-empty returns the front of the queue, leaves the rest of the queue in
\* the buffer in its order and the shared queue empty; the buffer is empty
\* from the moment the lock is taken until that swap.
C16_SwapTakesWholeQueue ==
    /\ [](rpc \in {"recv_match", "try_match", "recv_wait", "recv_woken"} => buffer = <<>>)
    /\ [][(rpc \in {"recv_match", "try_match"} /\ queue # <<>> /\ rpc' # rpc) =>
            /\ lock = Rx
            /\ rpc' = "idle"
            /\ rres' = <<rres[1], "Ok", Head(queue)>>
            /\ buffer' = Tail(queue)
            /\ queue' = <<>>]_vars

\* try_recv found three values queued: it returned the first, the other two
\* are in the buffer in their order
C16_Witness ==
    /\ rpc = "idle"
    /\ Len(sentOk) = 3
    /\ rres = <<"try_recv", "Ok", sentOk[1]>>
    /\ buffer = Tail(sentOk)
    /\ queue = <<>>

\* C17: with a non-empty buffer, the next step of the Receiver (short of
\* going out of scope) is a return of the front of the buffer: the lock is
\* not taken, and queue, senders and disconnected do not change, whatever the
\* queue holds and whether or not the channel is disconnected.
C17_BufferFirstWithoutLock ==
    [][(rpc = "idle" /\ buffer # <<>> /\ rpc' # "dropped") =>
        /\ rpc' = "idle"
        /\ lock' # Rx
        /\ (<<buffer, rres, received>>' # <<buffer, rres, received>> =>
              /\ rres'[2] = "Ok"
              /\ rres'[3] = Head(buffer)
              /\ buffer' = Tail(buffer)
              /\ received' = Append(received, Head(buffer))
              /\ UNCHANGED <<queue, senders, disconnected, lock>>)]_vars

\* the channel was disconnected after one value was received; the second was
\* then returned while the queue held a newer value, which a locked receive
\* would have swapped out
C17_Witness ==
    /\ discAt = 1
    /\ disconnected
    /\ Len(received) = 2
    /\ rres[2] = "Ok"
    /\ buffer = <<>>
    /\ queue # <<>>

\* C18: a send that returns Ok has appended its value at the tail of the
\* shared queue, and it has called notify_one exactly if the queue was empty
\* before the append: then a Receiver waiting on the condition variable is
\* woken; on a non-empty queue no signal is sent and the Receiver is left as
\* it was.
C18_SendSignalsOnFirstValue ==
    [][\A h \in Handles :
        (spc[h] = "send_body" /\ spc'[h] = "idle" /\ sres'[h] = <<"Ok">>) =>
            /\ queue' = Append(queue, sval[h])
            /\ (notified' <=> queue = <<>>)
            /\ (notified' /\ rpc = "recv_wait" => rpc' = "recv_woken")
            /\ (~notified' => rpc' = rpc)]_vars

\* a send onto a queue that already held two values sent no signal, after an
\* earlier send had signalled
C18_Witness ==
    /\ Len(queue) = 3
    /\ ~notified
    /\ \E h \in Handles : sres[h] = <<"Ok">> /\ sval[h] = queue[3]

\* C19: the sender count is the number of live Sender handles (those created
\* and not yet subtracted by their drop): 1 after channel(), one more at each
\* clone, one less at each drop, which always finds the count above 0; nothing
\* else changes it.
Counted == {h \in Handles : spc[h] \notin {"none", "gone", "drop_set"}}

C19_SendersCountsLiveHandles ==
    /\ [](senders = Cardinality(Counted) /\ senders >= 0)
    /\ []((\A h \in Handles : spc[h] = (IF h = 1 THEN "idle" ELSE "none")) => senders = 1)
    /\ [][/\ \A h \in Handles :
               /\ (spc[h] = "clone_body" /\ spc'[h] # spc[h]) => senders' = senders + 1
               /\ (spc[h] = "drop_dec" /\ spc'[h] # spc[h]) => (senders > 0 /\ senders' = senders - 1)
          /\ senders' # senders =>
               \E h \in Handles : spc[h] \in {"clone_body", "drop_dec"} /\ spc'[h] # spc[h]]_vars

\* the original handle was cloned and then dropped: the clone is the one
\* handle counted
C19_Witness ==
    /\ spc[1] = "gone"
    /\ \A h \in Handles \ {1} : spc[h] = "idle"
    /\ senders = MaxHandles - 1
    /\ lock = Free

\* C20: recv returns RecvError, and try_recv returns Disconnected, only from
\* under the lock with buffer and queue empty and the sender count 0;
\* try_recv returns Empty only from under the lock with buffer and queue
\* empty and the sender count above 0.
C20_ErrorsOnlyInNamedStates ==
    [][RecvReturns =>
        /\ (rres'[2] \in {"RecvError", "Disconnected"} =>
              (lock = Rx /\ buffer = <<>> /\ queue = <<>> /\ senders = 0))
        /\ (rres'[2] = "Empty" =>
              (lock = Rx /\ buffer = <<>> /\ queue = <<>> /\ senders > 0))
        /\ (rres' = <<"recv", "RecvError">> => rres[1] = "recv")
        /\ (rres'[2] \in {"Empty", "Disconnected"} => rres[1] = "try_recv")]_vars

\* try_recv has reported Empty and, after values were received and the last
\* Sender was dropped, Disconnected
C20_Witness ==
    /\ rres = <<"try_recv", "Disconnected">>
    /\ rpc = "idle"
    /\ senders = 0
    /\ received = sentOk
    /\ Len(received) >= 2

\* C21: the drop of the Receiver changes nothing the Senders see (queue,
\* senders, disconnected, the lock, the state of every handle); after it,
\* every send that returns returns Ok and has appended its value to the
\* shared queue, so every value sent since is queued, and disconnected is
\* false as long as a Sender is alive.
C21_ReceiverDropIsSilent ==
    /\ [](rpc = "dropped" /\ SenderAlive => ~disconnected)
    /\ [](rpc = "dropped" =>
            /\ dropAt >= 0
            /\ IsPrefix(SubSeq(sentOk, dropAt + 1, Len(sentOk)),
                        SubSeq(queue, Len(queue) - (Len(sentOk) - dropAt) + 1, Len(queue))))
    /\ [][(rpc # "dropped" /\ rpc' = "dropped") => UNCHANGED <<inner, lock, sender>>]_vars
    /\ [][\A h \in Handles :
            (rpc = "dropped" /\ spc[h] = "send_body" /\ spc'[h] = "idle") =>
                /\ sres'[h] = <<"Ok">>
                /\ queue' = Append(queue, sval[h])]_vars

\* two sends have returned Ok since the Receiver was dropped, and a Sender is
\* still alive
C21_Witness ==
    /\ rpc = "dropped"
    /\ dropAt >= 0
    /\ Len(sentOk) >= dropAt + 2
    /\ \E h \in Handles : spc[h] = "idle" /\ sres[h] = <<"Ok">>
    /\ ~disconnected

\* C22: no send made through a live Sender returns Err(SendError): while a
\* handle is inside send it is counted in senders and disconnected is false,
\* so the step that ends the call returns Ok.
C22_SendNeverFails ==
    /\ [](\A h \in Handles : sres[h][1] # "Err")
    /\ [](\A h \in Handles : spc[h] = "send_body" => (senders > 0 /\ ~disconnected))
    /\ [][\A h \in Handles :
            (spc[h] = "send_body" /\ spc'[h] = "idle") => sres'[h] = <<"Ok">>]_vars

\* the original handle was dropped without sending; its clone has since made
\* two sends, which returned Ok
C22_Witness ==
    \E h \in Handles \ {1} :
        /\ spc[1] = "gone"
        /\ nsent[1] = 0
        /\ spc[h] = "idle"
        /\ nsent[h] >= 2
        /\ sres[h] = <<"Ok">>
        /\ Len(sentOk) = nsent[h]

\* C23: a try_recv that returns Empty or Disconnected, and a recv that returns
\* RecvError, change nothing of the channel: the returning step leaves queue,
\* senders, disconnected, buffer and the values received as they are, and so
\* does every other step the Receiver takes on the way there (taking the
\* lock, starting to wait, taking the lock again after a wakeup).
ErrorReturn == RecvReturns /\ rres'[2] \in {"Empty", "Disconnected", "RecvError"}

ReceiverStep == rpc \in {"idle", "recv_match", "try_match", "recv_woken"} /\ rpc' # rpc

C23_ErrorReturnsChangeNothing ==
    /\ [][ErrorReturn => UNCHANGED <<queue, senders, disconnected, buffer, received>>]_vars
    /\ [][(ReceiverStep /\ rres'[2] # "Ok") =>
            UNCHANGED <<queue, senders, disconnected, buffer, received>>]_vars

\* try_recv has returned Empty between two Senders that hold the channel open
\* and a value received earlier: count, flag, queue and buffer are intact
C23_Witness ==
    /\ rres = <<"try_recv", "Empty">>
    /\ rpc = "idle"
    /\ lock = Free
    /\ senders = 2
    /\ ~disconnected
    /\ Len(received) >= 1
    /\ received = sentOk

====
